---- MODULE Spec2Model ----
(***************************************************************************)
(* Model of the OHLC candle aggregator of getprices.js (JSON Lines         *)
(* variant): one asset (Solana), its three timeframes, the tick handler    *)
(* updateOhlc, the persistence routine saveOhlcData, the startup loader    *)
(* loadOhlcData and the SIGINT handler.                                    *)
(*                                                                         *)
(* Node runs one callback at a time and an async function gives up the     *)
(* thread only at an await on a promise that is still pending.  The only   *)
(* such promise here is appendFile (and readFile at startup).  An await on *)
(* the promise of a saveOhlcData call that returned early resumes in the   *)
(* same microtask drain, before any other message, signal or I/O callback. *)
(* Every action below is therefore one run of the code from an entry point *)
(* (a WebSocket message, a signal, an I/O completion) to the next pending  *)
(* appendFile or to the end of the handler.                                *)
(*                                                                         *)
(* Time is in milliseconds, prices handed to updateOhlc are in thousandths *)
(* of a dollar and prices after rounding (toFixed(2)) are in cents.        *)
(***************************************************************************)
EXTENDS Integers, Sequences, FiniteSets, TLC

VARIABLES
    phase,          \* "loading" | "running" | "draining" | "exited"
    now,            \* the wall clock read by new Date()
    current,        \* frame.current per timeframe
    lastClose,      \* frame.lastClose per timeframe
    lastFinalized,  \* frame.lastFinalized per timeframe
    isSaving,       \* isSaving[`${asset}_${tf}`]
    store,          \* the records of the .jsonl file per timeframe
    calls,          \* updateOhlc calls suspended in await finalizeOhlc
    drain,          \* the SIGINT handler's position
    trace,          \* the console lines (and loop entries) of the last step
    exitCode,       \* the argument of process.exit, -1 while running
    writeErr,       \* an appendFile of this run has failed
    nTicks,         \* number of updateOhlc calls so far
    lastTick,       \* timestamp of the last validated tick (Null: none yet;
                    \* Overlapped: a tick arrived while a handler was suspended)
    atSigint,       \* frame.current per timeframe when SIGINT arrived
    drainErr,       \* an appendFile asked for by the SIGINT handler has failed
    lastPrice,      \* rounded price of the last validated tick
    probe,          \* argument and results of getIntervalStart called alone
    data            \* frame.data per timeframe (whole-file variant only)

vars == <<phase, now, current, lastClose, lastFinalized, isSaving, store,
          calls, drain, trace, exitCode, writeErr, nTicks, lastTick,
          atSigint, drainErr, lastPrice, probe, data>>

----------------------------------------------------------------------------
(* Bounds of the model *)

\* number of times the clock advances by ClockStep
MaxAdvance == 1
\* number of updateOhlc calls
MaxTicks == 3
\* number of timestamps, 29 s apart, getIntervalStart is called alone with
MaxProbe == 40

----------------------------------------------------------------------------
(* Program constants *)

\* assets['Solana'].min and .max, in cents
SolanaMin == 5000
SolanaMax == 50000
Interval1m == 60000
Interval5m == 300000
Interval15m == 900000

\* Object.entries(assetFrames) iterates in insertion order: 1m, 5m, 15m
TFs == <<"1m", "5m", "15m">>
TFSet == {"1m", "5m", "15m"}
interval == [tf \in TFSet |->
               IF tf = "1m" THEN Interval1m
               ELSE IF tf = "5m" THEN Interval5m ELSE Interval15m]

\* first clock reading (00:14:30) and the distance between readings
StartTime == 14 * Interval1m + 30000
ClockStep == Interval1m

\* prices a tick source hands over, in thousandths of a dollar
RawPrices == {49994, 49996, 50000, 500000, 500004, 500006}

Null == -1
Overlapped == Null - 1
NoCandle == [timestamp |-> Null, open |-> Null, high |-> Null,
             low |-> Null, close |-> Null]

----------------------------------------------------------------------------
(* Pure functions *)

\* mutant of getIntervalStart: Math.ceil in place of Math.floor
getIntervalStartCeil(timestamp, intervalMs) ==
    ((timestamp + intervalMs - 1) \div intervalMs) * intervalMs

\* new Date(Math.floor(timestamp.getTime() / interval) * interval)
getIntervalStart(timestamp, intervalMs) == (timestamp \div intervalMs) * intervalMs

\* parseFloat(price.toFixed(2)): round to the nearest cent
formatPrice(price) == (price + 5) \div 10

\* mutant of inRange: the bounds themselves are refused
inRangeExclusive(formattedPrice) ==
    formattedPrice > SolanaMin /\ formattedPrice < SolanaMax

\* the range check of updateOhlc, on the rounded price
inRange(formattedPrice) ==
    ~(formattedPrice < SolanaMin \/ formattedPrice > SolanaMax)

newCandle(intervalISO, prevClose) ==
    [timestamp |-> intervalISO, open |-> prevClose, high |-> prevClose,
     low |-> prevClose, close |-> prevClose]

\* mutant of applyPrice: the high is never raised
applyPriceNoHigh(candle, formattedPrice) ==
    IF formattedPrice # candle.close
    THEN LET c2 == IF formattedPrice < candle.low
                   THEN [candle EXCEPT !.low = formattedPrice] ELSE candle
         IN  [c2 EXCEPT !.close = formattedPrice]
    ELSE candle

\* mutant of applyPrice: the guard compares the price with the open
applyPriceGuardOpen(candle, formattedPrice) ==
    IF formattedPrice # candle.open
    THEN LET c1 == IF formattedPrice > candle.high
                   THEN [candle EXCEPT !.high = formattedPrice] ELSE candle
             c2 == IF formattedPrice < c1.low
                   THEN [c1 EXCEPT !.low = formattedPrice] ELSE c1
         IN  [c2 EXCEPT !.close = formattedPrice]
    ELSE candle

\* the update of the current candle at the end of the loop body
applyPrice(candle, formattedPrice) ==
    IF formattedPrice # candle.close
    THEN LET c1 == IF formattedPrice > candle.high
                   THEN [candle EXCEPT !.high = formattedPrice] ELSE candle
             c2 == IF formattedPrice < c1.low
                   THEN [c1 EXCEPT !.low = formattedPrice] ELSE c1
         IN  [c2 EXCEPT !.close = formattedPrice]
    ELSE candle

\* the update of the whole-file variant: high, low and close set without
\* the guard on the close
applyUnconditional(candle, formattedPrice) ==
    [candle EXCEPT
        !.high = IF formattedPrice > candle.high THEN formattedPrice ELSE candle.high,
        !.low = IF formattedPrice < candle.low THEN formattedPrice ELSE candle.low,
        !.close = formattedPrice]

\* mutant of needsNewCandle: the candle of the bucket last written is
\* finalized again
needsNewCandleNoGuard(cur, lastFin, intervalISO) ==
    cur = NoCandle \/ cur.timestamp # intervalISO

\* the test that decides whether the loop body starts a new candle
needsNewCandle(cur, lastFin, intervalISO) ==
    cur = NoCandle \/ (cur.timestamp # intervalISO /\ lastFin # cur.timestamp)

\* mutant of firstOpen: the recovered close is ignored
firstOpenTickPrice(lastCl, formattedPrice) == formattedPrice

\* mutant of firstOpen: lastClose is used even when it is null
firstOpenNoFallback(lastCl, formattedPrice) == lastCl

\* the opening price of the first candle of a frame
firstOpen(lastCl, formattedPrice) ==
    IF lastCl # Null THEN lastCl ELSE formattedPrice

\* mutant of saveInProgress: the flag is not consulted
saveNeverInProgress(flag) == FALSE

\* the guard at the top of saveOhlcData
saveInProgress(flag) == flag

\* mutant of SkipSave: the early return comes after the bookkeeping
SkipSaveWrites(S, ev) ==
    [S EXCEPT !.trace = Append(@, ev),
              !.lastClose[ev.tf] = ev.candle.close,
              !.lastFinalized[ev.tf] = ev.candle.timestamp]

\* lines 98-101: saveOhlcData returns early, logging the skip
SkipSave(S, ev) == [S EXCEPT !.trace = Append(@, ev)]

\* mutant of stringify: close and open change places in the line
stringifySwapped(candle) ==
    <<candle.timestamp, candle.close, candle.high, candle.low, candle.open>>

\* JSON.stringify(candle): the values of the candle's keys in the order the
\* object literal of updateOhlc lists them
stringify(candle) ==
    <<candle.timestamp, candle.open, candle.high, candle.low, candle.close>>

\* a line that JSON.parse refuses
CorruptLine == <<Null>>

\* mutant of parseLine: a line that does not parse reads as a candle of zeros
parseLineLenient(line) ==
    IF Len(line) = 5
    THEN [timestamp |-> line[1], open |-> line[2], high |-> line[3],
          low |-> line[4], close |-> line[5]]
    ELSE [timestamp |-> 0, open |-> 0, high |-> 0, low |-> 0, close |-> 0]

\* JSON.parse(line) read at .timestamp and .close; NoCandle stands for the
\* SyntaxError that loadOhlcData catches
parseLine(line) ==
    IF Len(line) = 5
    THEN [timestamp |-> line[1], open |-> line[2], high |-> line[3],
          low |-> line[4], close |-> line[5]]
    ELSE NoCandle

\* the SIGINT handler's test on a frame
shouldDrain(cur, lastFin) == cur # NoCandle /\ lastFin # cur.timestamp

----------------------------------------------------------------------------
(* The memory of the process as one record, for the operators that run a  *)
(* handler from an entry point to its next suspension.                    *)

Mem == [phase |-> phase, current |-> current, lastClose |-> lastClose,
        lastFinalized |-> lastFinalized, isSaving |-> isSaving,
        store |-> store, calls |-> calls, drain |-> drain, trace |-> <<>>,
        exitCode |-> exitCode, writeErr |-> writeErr]

\* getIntervalStart has not been called alone
NoProbe == [t |-> Null, w |-> Null, b |-> Null, bb |-> Null]

IdleDrain == [st |-> "idle", i |-> 0, line |-> NoCandle, cand |-> NoCandle]

Ev(at, tf, candle, bucket, price) ==
    [at |-> at, tf |-> tf, candle |-> candle, bucket |-> bucket, price |-> price]

Log(S, e) == [S EXCEPT !.trace = Append(@, e)]

\* frame.current of tf stops being the object the SIGINT handler passed to
\* finalizeOhlc: the handler keeps the object as it is now
Detach(S, tf) ==
    IF S.drain.st = "wait" /\ TFs[S.drain.i] = tf /\ S.drain.cand = NoCandle
    THEN [S EXCEPT !.drain.cand = S.current[tf]]
    ELSE S

\* lines 150-157 and 172-190: the new candle after finalizeOhlc returned,
\* then the price applied to it
CarryForward(S, tf, intervalISO, oldCandle, formattedPrice) ==
    LET S1 == Detach(S, tf)
        c  == newCandle(intervalISO, oldCandle.close)
    IN  Log([S1 EXCEPT !.current[tf] = applyPrice(c, formattedPrice)],
            Ev("new", tf, c, intervalISO, formattedPrice))

\* lines 137-191 from timeframe number i on
RECURSIVE RunUpdate(_, _, _, _)
RunUpdate(S, formattedPrice, timestamp, i) ==
    IF i > Len(TFs) THEN S
    ELSE
    LET tf == TFs[i]
        intervalISO == getIntervalStart(timestamp, interval[tf])
        cur == S.current[tf]
        S0 == Log(S, Ev("loop", tf, cur, intervalISO, formattedPrice))
    IN  IF needsNewCandle(cur, S.lastFinalized[tf], intervalISO)
        THEN IF cur # NoCandle
             THEN \* finalize the existing candle
                  LET S1 == Log([Detach(S0, tf) EXCEPT !.current[tf] = NoCandle],
                                Ev("final", tf, cur, intervalISO, formattedPrice))
                  IN  IF saveInProgress(S1.isSaving[tf])
                      THEN RunUpdate(
                             CarryForward(SkipSave(S1, Ev("skip", tf, cur, intervalISO, formattedPrice)),
                                          tf, intervalISO, cur, formattedPrice),
                             formattedPrice, timestamp, i + 1)
                      ELSE [S1 EXCEPT !.isSaving[tf] = TRUE,
                                      !.calls = Append(@,
                                          [price |-> formattedPrice, timestamp |-> timestamp,
                                           i |-> i, old |-> cur])]
             ELSE \* first candle of the frame
                  LET c == newCandle(intervalISO, firstOpen(S0.lastClose[tf], formattedPrice))
                  IN  RunUpdate(
                        Log([S0 EXCEPT !.current[tf] = applyPrice(c, formattedPrice)],
                            Ev("first", tf, c, intervalISO, formattedPrice)),
                        formattedPrice, timestamp, i + 1)
        ELSE RunUpdate([S0 EXCEPT !.current[tf] = applyPrice(cur, formattedPrice)],
                       formattedPrice, timestamp, i + 1)

\* mutant of FinishSave: lastClose and lastFinalized are set before the
\* outcome of appendFile is known
FinishSaveEager(S, tf, line, candle, ok) ==
    LET S0 == [S EXCEPT !.lastClose[tf] = candle.close,
                        !.lastFinalized[tf] = candle.timestamp]
        S1 == IF ok
              THEN Log([S0 EXCEPT !.store[tf] = Append(@, stringify(line))],
                       Ev("saved", tf, line, candle.timestamp, candle.close))
              ELSE Log([S0 EXCEPT !.writeErr = TRUE],
                       Ev("saveerr", tf, line, candle.timestamp, candle.close))
    IN  [S1 EXCEPT !.isSaving[tf] = FALSE]

\* mutant of FinishSave: the flag is cleared at the end of the try block,
\* not in a finally block
FinishSaveNoFinally(S, tf, line, candle, ok) ==
    IF ok
    THEN Log([S EXCEPT !.store[tf] = Append(@, stringify(line)),
                       !.lastClose[tf] = candle.close,
                       !.lastFinalized[tf] = candle.timestamp,
                       !.isSaving[tf] = FALSE],
             Ev("saved", tf, line, candle.timestamp, candle.close))
    ELSE Log([S EXCEPT !.writeErr = TRUE],
             Ev("saveerr", tf, line, candle.timestamp, candle.close))

\* lines 106-117: the end of saveOhlcData once appendFile has settled
FinishSave(S, tf, line, candle, ok) ==
    LET S1 == IF ok
              THEN Log([S EXCEPT !.store[tf] = Append(@, stringify(line)),
                                 !.lastClose[tf] = candle.close,
                                 !.lastFinalized[tf] = candle.timestamp],
                       Ev("saved", tf, line, candle.timestamp, candle.close))
              ELSE Log([S EXCEPT !.writeErr = TRUE],
                       Ev("saveerr", tf, line, candle.timestamp, candle.close))
    IN  [S1 EXCEPT !.isSaving[tf] = FALSE]

\* lines 311-319 from timeframe number i on
RECURSIVE RunDrain(_, _)
RunDrain(S, i) ==
    IF i > Len(TFs)
    THEN [S EXCEPT !.phase = "exited", !.exitCode = 0,
                   !.drain = [IdleDrain EXCEPT !.st = "done"]]
    ELSE
    LET tf == TFs[i]
        cur == S.current[tf]
    IN  IF shouldDrain(cur, S.lastFinalized[tf])
        THEN LET S1 == Log(S, Ev("final", tf, cur, cur.timestamp, cur.close))
             IN  IF saveInProgress(S1.isSaving[tf])
                 THEN RunDrain([SkipSave(S1, Ev("skip", tf, cur, cur.timestamp, cur.close))
                                  EXCEPT !.current[tf] = NoCandle], i + 1)
                 ELSE [S1 EXCEPT !.isSaving[tf] = TRUE,
                                 !.drain = [st |-> "wait", i |-> i, line |-> cur,
                                            cand |-> NoCandle]]
        ELSE RunDrain(S, i + 1)

----------------------------------------------------------------------------
(* Actions *)

\* the memory a handler leaves becomes the next state (M: R worked out once)
Commit(R) ==
    \E M \in {R} :
        /\ phase' = M.phase
        /\ current' = M.current
        /\ lastClose' = M.lastClose
        /\ lastFinalized' = M.lastFinalized
        /\ isSaving' = M.isSaving
        /\ calls' = M.calls
        /\ drain' = M.drain
        /\ trace' = M.trace
        /\ exitCode' = M.exitCode
        /\ writeErr' = M.writeErr
        /\ store' = M.store

\* loadOhlcData for one file: the last line seeds lastClose/lastFinalized;
\* a missing file, a file without lines and a line that does not parse
\* leave them null
LoadFrame(records, field) ==
    IF Len(records) > 0 THEN parseLine(records[Len(records)])[field] ELSE Null

Load ==
    /\ phase = "loading"
    /\ phase' = "running"
    /\ lastClose' = [tf \in TFSet |-> LoadFrame(store[tf], "close")]
    /\ lastFinalized' = [tf \in TFSet |-> LoadFrame(store[tf], "timestamp")]
    /\ isSaving' = [tf \in TFSet |-> FALSE]
    /\ trace' = <<>>
    /\ UNCHANGED <<now, current, store, calls, drain, exitCode,
                   writeErr, nTicks, lastTick, atSigint, drainErr, lastPrice, probe, data>>

\* a WebSocket message handler calls updateOhlc({price, asset, timestamp: new Date()})
Tick(price) ==
    /\ phase \in {"running", "draining"}
    /\ nTicks < MaxTicks
    /\ nTicks' = nTicks + 1
    /\ LET formattedPrice == formatPrice(price)
       IN  IF ~inRange(formattedPrice)
           THEN /\ Commit(Log(Mem, Ev("rejected", "1m", NoCandle, Null, formattedPrice)))
                /\ UNCHANGED <<lastTick, lastPrice>>
           ELSE /\ Commit(RunUpdate(Mem, formattedPrice, now, 1))
                /\ lastTick' = IF calls # <<>> \/ drain.st = "wait" \/ lastTick = Overlapped
                               THEN Overlapped ELSE now
                /\ lastPrice' = formattedPrice
    /\ UNCHANGED <<now, atSigint, drainErr, probe, data>>

\* appendFile of the j-th suspended updateOhlc call settles
SaveDone(j, ok) ==
    /\ phase \in {"running", "draining"}
    /\ j \in 1 .. Len(calls)
    /\ LET c  == calls[j]
           tf == TFs[c.i]
       IN  \E S0 \in {[Mem EXCEPT !.calls = SubSeq(calls, 1, j - 1) \o
                                             SubSeq(calls, j + 1, Len(calls))]} :
           \E S1 \in {FinishSave(S0, tf, c.old, c.old, ok)} :
           \E S2 \in {CarryForward(S1, tf, getIntervalStart(c.timestamp, interval[tf]),
                                    c.old, c.price)} :
               Commit(RunUpdate(S2, c.price, c.timestamp, c.i + 1))
    /\ UNCHANGED <<now, nTicks, lastTick, atSigint, drainErr, lastPrice, probe, data>>

\* process.on('SIGINT')
Sigint ==
    /\ phase = "running"
    /\ atSigint' = current
    /\ Commit(RunDrain([Mem EXCEPT !.phase = "draining"], 1))
    /\ UNCHANGED <<now, nTicks, lastTick, drainErr, lastPrice, probe, data>>

\* appendFile of the SIGINT handler's finalizeOhlc settles
DrainDone(ok) ==
    /\ phase = "draining"
    /\ drain.st = "wait"
    /\ LET tf == TFs[drain.i]
           candle == IF drain.cand = NoCandle THEN current[tf] ELSE drain.cand
           S1 == FinishSave([Mem EXCEPT !.drain = IdleDrain], tf, drain.line, candle, ok)
       IN  Commit(RunDrain([S1 EXCEPT !.current[tf] = NoCandle], drain.i + 1))
    /\ drainErr' = (drainErr \/ ~ok)
    /\ UNCHANGED <<now, nTicks, lastTick, atSigint, lastPrice, probe, data>>

\* the process has exited with the appendFile of the j-th suspended call
\* under way: the line may still reach the file
WriteLands(j) ==
    /\ phase = "exited"
    /\ j \in 1 .. Len(calls)
    /\ store' = [store EXCEPT ![TFs[calls[j].i]] = Append(@, stringify(calls[j].old))]
    /\ calls' = SubSeq(calls, 1, j - 1) \o SubSeq(calls, j + 1, Len(calls))
    /\ trace' = <<>>
    /\ UNCHANGED <<phase, now, current, lastClose, lastFinalized, isSaving,
                   drain, exitCode, writeErr, nTicks, lastTick, atSigint,
                   drainErr, lastPrice, probe, data>>

\* a message handler throws (JSON.parse of a frame that is not JSON): the
\* uncaughtException handler logs the error and calls process.exit(1)
Fatal ==
    /\ phase \in {"running", "draining"}
    /\ phase' = "exited"
    /\ exitCode' = 1
    /\ trace' = <<Ev("fatal", TFs[1], NoCandle, Null, Null)>>
    /\ UNCHANGED <<now, current, lastClose, lastFinalized, isSaving, store,
                   calls, drain, writeErr, nTicks, lastTick, atSigint,
                   drainErr, lastPrice, probe, data>>

AdvanceClock ==
    /\ (now - StartTime) \div ClockStep < MaxAdvance
    /\ now' = now + ClockStep
    /\ trace' = <<>>
    /\ UNCHANGED <<phase, current, lastClose, lastFinalized, isSaving, store,
                   calls, drain, exitCode, writeErr, nTicks, lastTick, atSigint,
                   drainErr, lastPrice, probe, data>>

\* What an earlier run of the program left in the files: nothing, or (one
\* tick at StartTime with the given rounded price, then SIGINT) one flat
\* candle per timeframe, or (Damaged) a 1m file whose only line does not
\* parse, a 5m file with one candle and no 15m file.
Damaged == Null - 1
PreviousRuns == {Null, 5000, 50000, Damaged}

PreviousStore(prev, tf) ==
    IF prev = Null THEN <<>>
    ELSE IF prev = Damaged
    THEN IF tf = "1m" THEN <<CorruptLine>>
         ELSE IF tf = "5m"
         THEN <<stringify(newCandle(getIntervalStart(StartTime, interval[tf]), SolanaMin))>>
         ELSE <<>>
    ELSE <<stringify(newCandle(getIntervalStart(StartTime, interval[tf]), prev))>>

Init ==
    /\ phase = "loading"
    /\ now = StartTime
    /\ current = [tf \in TFSet |-> NoCandle]
    /\ lastClose = [tf \in TFSet |-> Null]
    /\ lastFinalized = [tf \in TFSet |-> Null]
    /\ isSaving = [tf \in TFSet |-> FALSE]
    /\ \E prev \in PreviousRuns :
          store = [tf \in TFSet |-> PreviousStore(prev, tf)]
    /\ calls = <<>>
    /\ drain = IdleDrain
    /\ trace = <<>>
    /\ exitCode = Null
    /\ writeErr = FALSE
    /\ nTicks = 0
    /\ lastTick = Null
    /\ atSigint = [tf \in TFSet |-> NoCandle]
    /\ drainErr = FALSE
    /\ lastPrice = Null
    /\ probe = NoProbe
    /\ data = [tf \in TFSet |-> <<>>]

Next ==
    \/ Load
    \/ \E price \in RawPrices : Tick(price)
    \/ \E j \in 1 .. Len(TFs), ok \in BOOLEAN : SaveDone(j, ok)
    \/ Sigint
    \/ \E ok \in BOOLEAN : DrainDone(ok)
    \/ \E j \in 1 .. Len(TFs) : WriteLands(j)
    \/ Fatal
    \/ AdvanceClock

Spec == Init /\ [][Next]_vars

\* The same program with the guarantee that a promise of node:fs/promises
\* settles: while an appendFile is under way in a process that keeps
\* running, one of those under way is fulfilled or rejected after finitely
\* many steps.
Settle ==
    \/ \E j \in 1 .. Len(TFs), ok \in BOOLEAN : SaveDone(j, ok)
    \/ \E ok \in BOOLEAN : DrainDone(ok)

\* the program fed with ticks of one price (the flags do not depend on prices)
NextLive ==
    \/ Load
    \/ Tick(SolanaMin * 10)
    \/ Settle
    \/ Sigint
    \/ \E j \in 1 .. Len(TFs) : WriteLands(j)
    \/ Fatal
    \/ AdvanceClock

SpecLive == Init /\ [][NextLive]_vars /\ WF_vars(Settle)

----------------------------------------------------------------------------
(* The same program on a machine whose wall clock can be set back: the   *)
(* timestamp of a tick is new Date() at the arrival of the message.      *)

ClockStepsBack ==
    /\ now > StartTime
    /\ now' = now - ClockStep
    /\ trace' = <<>>
    /\ UNCHANGED <<phase, current, lastClose, lastFinalized, isSaving, store,
                   calls, drain, exitCode, writeErr, nTicks, lastTick, atSigint,
                   drainErr, lastPrice, probe, data>>

NextSkew ==
    \/ Next
    \/ ClockStepsBack

SpecSkew == Init /\ [][NextSkew]_vars

----------------------------------------------------------------------------
(* getIntervalStart called alone, then again on its own result *)

engine == <<phase, now, current, lastClose, lastFinalized, isSaving, store,
            calls, drain, trace, exitCode, writeErr, nTicks, lastTick,
            atSigint, drainErr, lastPrice, data>>

ProbeTimes == {n * 29 * 1000 : n \in 0 .. MaxProbe}

InitClock ==
    /\ phase = "loading"
    /\ now = StartTime
    /\ current = [tf \in TFSet |-> NoCandle]
    /\ lastClose = [tf \in TFSet |-> Null]
    /\ lastFinalized = [tf \in TFSet |-> Null]
    /\ isSaving = [tf \in TFSet |-> FALSE]
    /\ store = [tf \in TFSet |-> <<>>]
    /\ calls = <<>>
    /\ drain = IdleDrain
    /\ trace = <<>>
    /\ exitCode = Null
    /\ writeErr = FALSE
    /\ nTicks = 0
    /\ lastTick = Null
    /\ atSigint = [tf \in TFSet |-> NoCandle]
    /\ drainErr = FALSE
    /\ lastPrice = Null
    /\ data = [tf \in TFSet |-> <<>>]
    /\ \E t \in ProbeTimes, tf \in TFSet :
          probe = [NoProbe EXCEPT !.t = t, !.w = interval[tf]]

Bucket ==
    /\ probe.b = Null
    /\ probe' = [probe EXCEPT !.b = getIntervalStart(probe.t, probe.w)]
    /\ UNCHANGED engine

Rebucket ==
    /\ probe.b # Null
    /\ probe.bb = Null
    /\ probe' = [probe EXCEPT !.bb = getIntervalStart(probe.b, probe.w)]
    /\ UNCHANGED engine

NextClock ==
    \/ Bucket
    \/ Rebucket

SpecClock == InitClock /\ [][NextClock]_vars

----------------------------------------------------------------------------
(* The whole-file variant: each timeframe keeps finalized candles in the   *)
(* buffer frame.data, and saveOhlcData reads the file, appends the buffer, *)
(* writes the whole array to a temporary file, renames it and empties the  *)
(* buffer.  It has no lastClose/lastFinalized and updateOhlc receives      *)
(* prices that processPrice has validated.  The suspension points are the  *)
(* readFile and the writeFile/rename of saveOhlcData; writeFile and rename *)
(* are one step, since no handler reads the temporary file.                *)
(*                                                                         *)
(* An entry of frame.data is a reference to a candle object: live tells    *)
(* whether it is the object frame.current refers to, which later ticks of  *)
(* the same bucket keep changing.                                          *)

WMem == [phase |-> phase, current |-> current, isSaving |-> isSaving,
         store |-> store, data |-> data, calls |-> calls, trace |-> <<>>,
         exitCode |-> exitCode]

\* prices that pass processPrice (50 <= price <= 500), in cents
WholePrices == {SolanaMin, SolanaMax}

\* JSON.parse of the file: an array of candles, or nothing when the file is
\* missing, empty or corrupted
WParseFile(lines) ==
    IF \E k \in 1 .. Len(lines) : lines[k] = CorruptLine THEN <<>> ELSE lines

\* JSON.stringify(updatedData): the file content for existingData.concat(frame.data)
WContent(lines, buffer) ==
    WParseFile(lines) \o [k \in 1 .. Len(buffer) |-> stringify(buffer[k].c)]

\* lines 187-197: the price applied to frame.current (and so to the entry
\* of frame.data that is the same object)
WApply(S, tf, formattedPrice) ==
    LET c == applyUnconditional(S.current[tf], formattedPrice)
    IN  [S EXCEPT !.current[tf] = c,
                  !.data[tf] = [k \in 1 .. Len(@) |->
                                  IF @[k].live THEN [c |-> c, live |-> TRUE] ELSE @[k]]]

\* lines 176-184: frame.current becomes a new object
WNewCandle(S, tf, intervalISO, formattedPrice) ==
    LET prevClose == IF S.current[tf] # NoCandle
                     THEN S.current[tf].close ELSE formattedPrice
        c == newCandle(intervalISO, prevClose)
    IN  Log([S EXCEPT !.current[tf] = c,
                      !.data[tf] = [k \in 1 .. Len(@) |-> [@[k] EXCEPT !.live = FALSE]]],
            Ev("new", tf, c, intervalISO, formattedPrice))

\* lines 209-216 of finalizeOhlc: frame.current is put into frame.data
WPush(S, tf) ==
    LET cur == S.current[tf]
        buf == S.data[tf]
        e   == [c |-> cur, live |-> TRUE]
    IN  Log([S EXCEPT !.data[tf] =
                 IF Len(buf) > 0 /\ buf[Len(buf)].c.timestamp = cur.timestamp
                 THEN [buf EXCEPT ![Len(buf)] = e]
                 ELSE Append(buf, e)],
            Ev("final", tf, cur, cur.timestamp, cur.close))

\* lines 113-129 of saveOhlcData, up to the await on readFile: call is the
\* caller's continuation, added to calls when the save goes on
WSave(S, tf, call) ==
    IF saveInProgress(S.isSaving[tf])
    THEN Log(S, Ev("skip", tf, NoCandle, Null, Null))
    ELSE IF Len(S.data[tf]) = 0
    THEN Log(S, Ev("nodata", tf, NoCandle, Null, Null))
    ELSE [S EXCEPT !.isSaving[tf] = TRUE, !.calls = Append(@, call)]

WCall(kind, formattedPrice, timestamp, i) ==
    [kind |-> kind, price |-> formattedPrice, timestamp |-> timestamp, i |-> i,
     stage |-> "read", content |-> <<>>]

\* lines 168-202 of updateOhlc from timeframe number i on
RECURSIVE WRunUpdate(_, _, _, _)
WRunUpdate(S, formattedPrice, timestamp, i) ==
    IF i > Len(TFs) THEN S
    ELSE
    LET tf == TFs[i]
        intervalISO == getIntervalStart(timestamp, interval[tf])
        cur == S.current[tf]
    IN  IF cur = NoCandle \/ cur.timestamp # intervalISO
        THEN IF cur # NoCandle
             THEN LET S1 == WPush(S, tf)
                      S2 == WSave(S1, tf, WCall("tick", formattedPrice, timestamp, i))
                  IN  IF Len(S2.calls) > Len(S1.calls)
                      THEN S2
                      ELSE WRunUpdate(
                             WApply(WNewCandle(S2, tf, intervalISO, formattedPrice),
                                    tf, formattedPrice),
                             formattedPrice, timestamp, i + 1)
             ELSE WRunUpdate(
                    WApply(WNewCandle(S, tf, intervalISO, formattedPrice),
                           tf, formattedPrice),
                    formattedPrice, timestamp, i + 1)
        ELSE WRunUpdate(WApply(S, tf, formattedPrice), formattedPrice, timestamp, i + 1)

\* lines 281-285 of the SIGINT handler from timeframe number i on:
\* part 1 is await finalizeOhlc(tf), part 2 is await saveOhlcData(tf)
RECURSIVE WRunDrain(_, _, _)
WRunDrain(S, i, part) ==
    IF i > Len(TFs)
    THEN [S EXCEPT !.phase = "exited", !.exitCode = 0]
    ELSE
    LET tf == TFs[i]
    IN  IF part = 1
        THEN IF S.current[tf] = NoCandle
             THEN WRunDrain(S, i, 2)
             ELSE LET S1 == WPush(S, tf)
                      S2 == WSave(S1, tf, WCall("finalize", Null, Null, i))
                  IN  IF Len(S2.calls) > Len(S1.calls)
                      THEN S2 ELSE WRunDrain(S2, i, 2)
        ELSE LET S2 == WSave(S, tf, WCall("save", Null, Null, i))
             IN  IF Len(S2.calls) > Len(S.calls)
                 THEN S2 ELSE WRunDrain(S2, i + 1, 1)

\* the caller of a saveOhlcData that has returned goes on
WContinue(S, call) ==
    LET tf == TFs[call.i]
    IN  IF call.kind = "tick"
        THEN WRunUpdate(
               WApply(WNewCandle(S, tf, getIntervalStart(call.timestamp, interval[tf]),
                                 call.price),
                      tf, call.price),
               call.price, call.timestamp, call.i + 1)
        ELSE IF call.kind = "finalize"
        THEN WRunDrain(S, call.i, 2)
        ELSE WRunDrain(S, call.i + 1, 1)

WCommit(R) ==
    \E M \in {R} :
        /\ phase' = M.phase
        /\ current' = M.current
        /\ isSaving' = M.isSaving
        /\ store' = M.store
        /\ data' = M.data
        /\ calls' = M.calls
        /\ trace' = M.trace
        /\ exitCode' = M.exitCode

\* loadOhlcData: frame.data becomes the array read from the file
WLoad ==
    /\ phase = "loading"
    /\ phase' = "running"
    /\ data' = [tf \in TFSet |->
                  [k \in 1 .. Len(WParseFile(store[tf])) |->
                     [c |-> parseLine(WParseFile(store[tf])[k]), live |-> FALSE]]]
    /\ isSaving' = [tf \in TFSet |-> FALSE]
    /\ trace' = <<>>
    /\ UNCHANGED <<now, current, lastClose, lastFinalized, store, calls, drain,
                   exitCode, writeErr, nTicks, lastTick, atSigint, drainErr,
                   lastPrice, probe>>

\* connection.onLogs callback: updateOhlc(finalPrice)
WTick(formattedPrice) ==
    /\ phase \in {"running", "draining"}
    /\ nTicks < MaxTicks
    /\ nTicks' = nTicks + 1
    /\ WCommit(WRunUpdate(WMem, formattedPrice, now, 1))
    /\ UNCHANGED <<now, lastClose, lastFinalized, drain, writeErr, lastTick,
                   atSigint, drainErr, lastPrice, probe>>

\* readFile of the j-th save under way settles: lines 130-152, up to the
\* await on writeFile; a failure other than ENOENT ends the save
WReadDone(j, ok) ==
    /\ phase \in {"running", "draining"}
    /\ j \in 1 .. Len(calls)
    /\ calls[j].stage = "read"
    /\ LET c  == calls[j]
           tf == TFs[c.i]
           rest == SubSeq(calls, 1, j - 1) \o SubSeq(calls, j + 1, Len(calls))
       IN  IF ok
           THEN WCommit([WMem EXCEPT
                    !.calls[j] = [c EXCEPT !.stage = "write",
                                           !.content = WContent(store[tf], data[tf])]])
           ELSE \E S1 \in {Log([WMem EXCEPT !.calls = rest, !.isSaving[tf] = FALSE],
                               Ev("saveerr", tf, NoCandle, Null, Null))} :
                    WCommit(WContinue(S1, c))
    /\ UNCHANGED <<now, lastClose, lastFinalized, drain, writeErr, nTicks, lastTick,
                   atSigint, drainErr, lastPrice, probe>>

\* writeFile and rename of the j-th save under way settle: lines 153-161,
\* then the caller goes on
WWriteDone(j, ok) ==
    /\ phase \in {"running", "draining"}
    /\ j \in 1 .. Len(calls)
    /\ calls[j].stage = "write"
    /\ LET c  == calls[j]
           tf == TFs[c.i]
           rest == SubSeq(calls, 1, j - 1) \o SubSeq(calls, j + 1, Len(calls))
       IN  \E S1 \in {IF ok
                      THEN Log([WMem EXCEPT !.calls = rest, !.isSaving[tf] = FALSE,
                                            !.store[tf] = c.content,
                                            !.data[tf] = <<>>],
                               Ev("saved", tf, NoCandle, Null, Null))
                      ELSE Log([WMem EXCEPT !.calls = rest, !.isSaving[tf] = FALSE],
                               Ev("saveerr", tf, NoCandle, Null, Null))} :
               WCommit(WContinue(S1, c))
    /\ UNCHANGED <<now, lastClose, lastFinalized, drain, writeErr, nTicks, lastTick,
                   atSigint, drainErr, lastPrice, probe>>

\* process.on('SIGINT')
WSigint ==
    /\ phase = "running"
    /\ WCommit(WRunDrain([WMem EXCEPT !.phase = "draining"], 1, 1))
    /\ UNCHANGED <<now, lastClose, lastFinalized, drain, writeErr, nTicks, lastTick,
                   atSigint, drainErr, lastPrice, probe>>

NextWhole ==
    \/ WLoad
    \/ \E formattedPrice \in WholePrices : WTick(formattedPrice)
    \/ \E j \in 1 .. Len(TFs), ok \in BOOLEAN : WReadDone(j, ok)
    \/ \E j \in 1 .. Len(TFs), ok \in BOOLEAN : WWriteDone(j, ok)
    \/ WSigint
    \/ Fatal
    \/ AdvanceClock

SpecWhole == Init /\ [][NextWhole]_vars

----------------------------------------------------------------------------
(* Properties *)

OhlcOk(c) ==
    c.low <= c.open /\ c.open <= c.high /\ c.low <= c.close /\ c.close <= c.high

\* number of persist operations in flight for a timeframe: suspended
\* updateOhlc calls and the SIGINT handler waiting on its appendFile
InFlight(tf) ==
    Cardinality({j \in 1 .. Len(calls) : TFs[calls[j].i] = tf})
    + (IF drain.st = "wait" /\ TFs[drain.i] = tf THEN 1 ELSE 0)

HasEvent(tr, at, tf) == \E j \in 1 .. Len(tr) : tr[j].at = at /\ tr[j].tf = tf

\* C1: the current candle of every timeframe, every candle handed to
\* finalizeOhlc/saveOhlcData and every stored record has
\* low <= open <= high and low <= close <= high.
C1_OhlcBounds ==
    /\ \A tf \in TFSet :
          /\ current[tf] # NoCandle => OhlcOk(current[tf])
          /\ \A n \in 1 .. Len(store[tf]) : OhlcOk(parseLine(store[tf][n]))
    /\ \A j \in 1 .. Len(calls) : OhlcOk(calls[j].old)
    /\ drain.st = "wait" => OhlcOk(drain.line)
    /\ \A j \in 1 .. Len(trace) :
          trace[j].at \in {"final", "skip", "saved", "saveerr"} => OhlcOk(trace[j].candle)

\* a candle with low < high written by this run is in a store
C1_Witness ==
    \E tf \in TFSet :
        /\ HasEvent(trace, "saved", tf)
        /\ LoadFrame(store[tf], "low") < LoadFrame(store[tf], "high")

\* C2: when the loop body of updateOhlc meets a current candle whose
\* timestamp differs from the tick's bucket, that candle is handed to
\* finalizeOhlc exactly once, and the candle created for the bucket (at once
\* when the save is skipped, after the await otherwise) opens at its close.
C2_FinalizedOnceOpenIsPrevClose ==
    /\ \A j \in 1 .. Len(trace) :
          LET e == trace[j] IN
          (e.at = "loop" /\ e.candle # NoCandle /\ e.candle.timestamp # e.bucket) =>
              /\ Cardinality({n \in 1 .. Len(trace) :
                                trace[n].at = "final" /\ trace[n].tf = e.tf
                                /\ trace[n].candle = e.candle}) = 1
              /\ current[e.tf] # NoCandle =>
                    /\ current[e.tf].timestamp = e.bucket
                    /\ current[e.tf].open = e.candle.close
    /\ \A j \in 1 .. Len(trace) :
          trace[j].at = "new" =>
              \E n \in 1 .. j - 1 :
                  /\ trace[n].at \in {"final", "saved", "saveerr"}
                  /\ trace[n].tf = trace[j].tf
                  /\ trace[n].candle.close = trace[j].candle.open

\* C3: once updateOhlc has finished a validated tick that overlapped with no
\* other call, every timeframe's current candle is the one of the tick's bucket.
C3_CurrentAtTickBucket ==
    (phase = "running" /\ calls = <<>> /\ lastTick \notin {Null, Overlapped}) =>
        \A tf \in TFSet :
            /\ current[tf] # NoCandle
            /\ current[tf].timestamp = getIntervalStart(lastTick, interval[tf])

\* C4: at most one persist operation per timeframe is in flight.
C4_OnePersistPerKey == \A tf \in TFSet : InFlight(tf) <= 1

\* the SIGINT handler asked for a persist while an updateOhlc call's persist
\* for the same timeframe was in flight
C4_Witness ==
    \E tf \in TFSet :
        /\ phase \in {"draining", "exited"}
        /\ HasEvent(trace, "skip", tf)
        /\ \E j \in 1 .. Len(calls) : TFs[calls[j].i] = tf

\* C5: a persist request that finds a persist in flight for its timeframe
\* writes nothing, leaves lastClose and lastFinalized alone and is not queued.
C5_SkippedSaveIsNoOp ==
    [][\A tf \in TFSet :
          HasEvent(trace', "skip", tf) =>
              /\ isSaving[tf]
              /\ store'[tf] = store[tf]
              /\ lastClose'[tf] = lastClose[tf]
              /\ lastFinalized'[tf] = lastFinalized[tf]
              /\ isSaving'[tf]
              /\ InFlight(tf)' = InFlight(tf)]_vars

\* an updateOhlc call's persist request was skipped
C5_Witness ==
    \E j \in 1 .. Len(trace) :
        /\ trace[j].at = "skip"
        /\ isSaving[trace[j].tf]
        /\ HasEvent(trace, "new", trace[j].tf)

\* C6: after the SIGINT path has exited without a write error, every
\* timeframe that had a current candle when SIGINT arrived has exactly one
\* record of that candle's bucket in its store.
C6_DrainSavesEveryCandle ==
    (phase = "exited" /\ exitCode = 0 /\ ~writeErr) =>
        \A tf \in TFSet :
            atSigint[tf] # NoCandle =>
                Cardinality({n \in 1 .. Len(store[tf]) :
                    parseLine(store[tf][n]).timestamp = atSigint[tf].timestamp}) = 1

\* C7: the SIGINT path does not reach process.exit while a persist is in
\* flight (isSaving still set) for any timeframe.
C7_NoExitWhileSaving ==
    (phase = "exited" /\ exitCode = 0) => \A tf \in TFSet : ~isSaving[tf]

\* C8: the first candle created for a timeframe whose store ended with a
\* record at startup opens at the close of that record.
C8_FirstOpenIsRecoveredClose ==
    [][(lastTick = Null /\ lastTick' # Null) =>
          \A tf \in TFSet :
              (Len(store[tf]) > 0 /\ parseLine(store[tf][Len(store[tf])]) # NoCandle) =>
                  /\ current'[tf] # NoCandle
                  /\ current'[tf].open = parseLine(store[tf][Len(store[tf])]).close]_vars

\* the first tick of a run after recovery, with a price other than the
\* recovered close
C8_Witness ==
    /\ nTicks >= 1
    /\ calls = <<>>
    /\ \A tf \in TFSet :
          /\ Len(store[tf]) = 1
          /\ \E j \in 1 .. Len(trace) :
                /\ trace[j].at = "first" /\ trace[j].tf = tf
                /\ trace[j].candle.open # trace[j].price
                /\ trace[j].candle.open = parseLine(store[tf][1]).close

\* the state of the aggregator that a rejected tick must leave alone
Frames == <<phase, current, lastClose, lastFinalized, isSaving, store, calls,
            drain, exitCode, writeErr>>

C10_ColdStartCandle ==
    [][(lastTick = Null /\ lastTick' # Null) =>
          \A tf \in TFSet :
              (current[tf] = NoCandle /\ lastClose[tf] = Null) =>
                  current'[tf] = newCandle(getIntervalStart(now, interval[tf]),
                                           trace'[1].price)]_vars

\* the first tick of a run without history has been applied
C10_Witness ==
    /\ nTicks >= 1
    /\ calls = <<>>
    /\ \A tf \in TFSet :
          /\ store[tf] = <<>>
          /\ lastClose[tf] = Null
          /\ \E j \in 1 .. Len(trace) :
                /\ trace[j].at = "first" /\ trace[j].tf = tf
                /\ current[tf] = newCandle(trace[j].bucket, trace[j].price)

Unreadable(records) ==
    Len(records) = 0 \/ records[Len(records)] = CorruptLine

C11_OpenFixedWithinBucket ==
    [][\A tf \in TFSet :
          (/\ current[tf] # NoCandle
           /\ current'[tf] # NoCandle
           /\ current'[tf].timestamp = current[tf].timestamp) =>
              current'[tf].open = current[tf].open]_vars

\* C12: the process does not exit with code 0 after an appendFile asked for
\* by the SIGINT handler has failed.
C12_DrainFailureExitsNonZero ==
    (phase = "exited" /\ drainErr) => exitCode # 0

\* C13: the step that ends the process with code 1 on an uncaught exception
\* hands every timeframe's current candle to finalizeOhlc.
C13_FatalPathDrains ==
    [][(phase # "exited" /\ phase' = "exited" /\ exitCode' = 1) =>
          \A tf \in TFSet :
              current[tf] # NoCandle => HasEvent(trace', "final", tf)]_vars

\* C18: once every updateOhlc call has completed, the close of every
\* timeframe's current candle is the price of the last validated tick.
C18_CloseIsLastIngestedPrice ==
    (phase = "running" /\ calls = <<>> /\ lastPrice # Null) =>
        \A tf \in TFSet :
            /\ current[tf] # NoCandle
            /\ current[tf].close = lastPrice

\* C19: for every current candle the program reaches and every price that
\* passes validation, the guarded update of updateOhlc gives the candle that
\* high = max(high, p), low = min(low, p), close = p gives.
C19_GuardedEqualsUnconditional ==
    \A tf \in TFSet, price \in RawPrices :
        (current[tf] # NoCandle /\ inRange(formatPrice(price))) =>
            applyPrice(current[tf], formatPrice(price))
                = applyUnconditional(current[tf], formatPrice(price))

\* a current candle that has moved away from its open, so that a price
\* equal to its close and a price equal to its open are both to be applied
C19_Witness ==
    \E tf \in TFSet :
        /\ current[tf] # NoCandle
        /\ current[tf].low < current[tf].high
        /\ current[tf].close # current[tf].open

\* C20: when appendFile fails, the file, lastClose and lastFinalized of the
\* timeframe are as before and the flag is cleared; when the persist was
\* asked for by an updateOhlc call, the call goes on: the process is still
\* up and the timeframe's current candle is the new candle, opened at the
\* close of the old one, with the call's price applied.
C20_AppendFailureContained ==
    [][\A tf \in TFSet :
          HasEvent(trace', "saveerr", tf) =>
              /\ store'[tf] = store[tf]
              /\ lastClose'[tf] = lastClose[tf]
              /\ lastFinalized'[tf] = lastFinalized[tf]
              /\ ~isSaving'[tf]
              /\ \A j \in 1 .. Len(calls) :
                    TFs[calls[j].i] = tf =>
                        /\ phase' = phase
                        /\ current'[tf] =
                              applyPrice(newCandle(getIntervalStart(calls[j].timestamp,
                                                                    interval[tf]),
                                                   calls[j].old.close),
                                         calls[j].price)]_vars

\* an updateOhlc call went on after its appendFile failed
C20_Witness ==
    \E tf \in TFSet :
        /\ HasEvent(trace, "saveerr", tf)
        /\ HasEvent(trace, "new", tf)
        /\ lastFinalized[tf] = Null
        /\ current[tf] # NoCandle
        /\ current[tf].close # current[tf].open

\* C14: a record appended to a timeframe's file has a timestamp later than
\* the lastFinalized the timeframe had before the append.
C14_NoRecordAtOrBeforeLastFinalized ==
    [][\A tf \in TFSet :
          (Len(store'[tf]) > Len(store[tf]) /\ lastFinalized[tf] # Null) =>
              parseLine(store'[tf][Len(store'[tf])]).timestamp > lastFinalized[tf]]_vars

\* C17: the bucket start b of a timestamp t >= 0 for a width w is a multiple
\* of w with b <= t < b + w, and the bucket start of b is b.
C17_BucketStartAligned ==
    /\ probe.b # Null =>
          /\ probe.b % probe.w = 0
          /\ probe.b <= probe.t
          /\ probe.t < probe.b + probe.w
    /\ probe.bb # Null => probe.bb = probe.b

\* a timestamp inside a later 15-minute bucket has been bucketed twice
C17_Witness ==
    /\ probe.w = Interval15m
    /\ probe.bb # Null
    /\ probe.b > 0
    /\ probe.b < probe.t

\* C21: a flag that saveOhlcData has set is cleared again, whether the
\* append succeeds or fails, as long as the process has not exited.
C21_FlagEventuallyCleared ==
    \A tf \in TFSet : isSaving[tf] ~> (~isSaving[tf] \/ phase = "exited")

\* a flag has been cleared after a failed append and the process runs on
C21_Witness ==
    \E tf \in TFSet :
        /\ HasEvent(trace, "saveerr", tf)
        /\ ~isSaving[tf]
        /\ phase = "running"

\* C22: in the whole-file variant every save that changes a readable file
\* leaves the previous records, in order and once each, followed by at
\* least one new record: no record after the old ones repeats an old one.
\* This includes the first save after loadOhlcData recovered the records.
C22_SaveKeepsRecordsOnce ==
    [][\A tf \in TFSet :
          (store'[tf] # store[tf] /\ WParseFile(store[tf]) = store[tf])
          => /\ Len(store'[tf]) > Len(store[tf])
             /\ SubSeq(store'[tf], 1, Len(store[tf])) = store[tf]
             /\ \A k \in Len(store[tf]) + 1 .. Len(store'[tf]) :
                   \A m \in 1 .. Len(store[tf]) : store'[tf][k] # store[tf][m]]_vars

\* the buckets of the candles in a buffer, and of the records of a file
BufferStamps(buffer) == {buffer[k].c.timestamp : k \in 1 .. Len(buffer)}
FileStamps(lines) == {parseLine(lines[k]).timestamp : k \in 1 .. Len(WParseFile(lines))}

\* C23: in the whole-file variant a candle leaves frame.data only when it
\* has been written: after every step, every bucket that was in the buffer
\* is still in the buffer or is in the file.
C23_BufferedCandleKeptOrStored ==
    [][\A tf \in TFSet :
          BufferStamps(data[tf]) \subseteq
              (BufferStamps(data'[tf]) \cup FileStamps(store'[tf]))]_vars

\* the records of a file (unreadable lines left out) have strictly
\* increasing timestamps
StrictlyIncreasing(lines) ==
    \A k \in 1 .. Len(lines) - 1 :
        lines[k] # CorruptLine =>
            \A n \in k + 1 .. Len(lines) :
                lines[n] # CorruptLine =>
                    parseLine(lines[k]).timestamp < parseLine(lines[n]).timestamp

DrainCandle ==
    IF drain.cand = NoCandle THEN current[TFs[drain.i]] ELSE drain.cand

\* no appendFile is under way for the timeframe
NoPersist(tf) ==
    /\ ~isSaving[tf]
    /\ InFlight(tf) = 0
    /\ ~(drain.st = "wait" /\ TFs[drain.i] = tf)

\* C25: while the process runs, a timeframe with no append under way and a
\* file whose last line is a record has lastClose and lastFinalized equal to
\* that record's close and timestamp; and the candle the SIGINT handler gave
\* to saveOhlcData is, until appendFile settles, the candle that was written.
C25_RecoveryFieldsMatchStore ==
    /\ \A tf \in TFSet :
          (/\ phase \in {"running", "draining"}
           /\ NoPersist(tf)
           /\ ~Unreadable(store[tf]))
          => /\ lastClose[tf] = parseLine(store[tf][Len(store[tf])]).close
             /\ lastFinalized[tf] = parseLine(store[tf][Len(store[tf])]).timestamp
    /\ (phase = "draining" /\ drain.st = "wait") => DrainCandle = drain.line
====
